---- MODULE Spec2Model ----
(***************************************************************************)
(* A model of the formatting / compositing utilities of i3status-rust:     *)
(* src/src/util.rs (print_blocks, color_from_rgba, color_to_rgba,          *)
(* add_colors, format_vec_to_bar_graph, FormatTemplate) and                *)
(* src/src/config.rs (SharedConfig).                                       *)
(*                                                                         *)
(* Rust strings are modelled as sequences of one-character strings (all    *)
(* inputs are ASCII, so byte offsets and character offsets coincide).      *)
(* Option<T> is modelled as a sequence of length 0 (None) or 1 (Some).     *)
(***************************************************************************)
EXTENDS Integers, Sequences, FiniteSets, TLC

VARIABLES
    color_a,        \* add_colors: a (also the argument of color_from_rgba)
    color_b,        \* add_colors: b
    rgba_result,    \* what color_from_rgba(color_a) returned
    add_result,     \* what add_colors(color_a, color_b) returned
    template,       \* FormatTemplate::from_string: s
    tokens,         \* the FormatTemplate built from it (its tokens)
    render_vars,    \* render_static_str: vars, of the latest call
    render_result,  \* what render_static_str returned
    content,        \* format_vec_to_bar_graph: content
    bar_min,        \* format_vec_to_bar_graph: min
    bar_max,        \* format_vec_to_bar_graph: max
    bar_result,     \* what format_vec_to_bar_graph returned
    blocks,         \* print_blocks: what view() of each block yields, in order
    print_theme,    \* print_blocks: config.theme
    stdout,         \* the lines written to standard output
    print_result,   \* what print_blocks returned
    handles,        \* the SharedConfig values alive, in order of creation
    theme_rc,       \* the Rc<Theme> allocations: a handle's theme is an index
    icons_rc,       \* the Rc<HashMap<String, String>> allocations
    last_call,      \* the latest call on a SharedConfig, and what it returned
    ID,             \* pseudo_uuid: the static AtomicUsize
    uuid_log        \* the pseudo_uuid calls so far: who called, what it returned

colorVars == <<color_a, color_b, rgba_result, add_result>>

templateVars == <<template, tokens, render_vars, render_result>>

barVars == <<content, bar_min, bar_max, bar_result>>

printVars == <<blocks, print_theme, stdout, print_result>>

configVars == <<handles, theme_rc, icons_rc, last_call>>

uuidVars == <<ID, uuid_log>>

vars == <<colorVars, templateVars, barVars, printVars, configVars, uuidVars>>

----------------------------------------------------------------------------
(* Option and Result *)

None == <<>>

Some(x) == <<x>>

IsSome(o) == o # <<>>

Unwrap(o) == o[1]

Ok(v) == [ok |-> TRUE, val |-> v, err |-> "", msg |-> <<>>]

\* an error of kind e whose message is m
ErrMsg(e, m) == [ok |-> FALSE, val |-> <<>>, err |-> e, msg |-> m]

Err(e) == ErrMsg(e, <<>>)

\* the value of a result variable before the function has been called
NotCalled == Err("not called")

\* a panic (unwrap on None / Err, failed assertion, arithmetic overflow)
Panic(m) == ErrMsg("panic", <<m>>)

----------------------------------------------------------------------------
(* Strings *)

RECURSIVE Concat(_)
\* the concatenation of a sequence of strings
Concat(ss) == IF ss = <<>> THEN <<>> ELSE Head(ss) \o Concat(Tail(ss))

\* str::get(i..j): None when the range does not lie within the string
StrGet(s, i, j) == IF i <= j /\ j <= Len(s) THEN Some(SubSeq(s, i + 1, j)) ELSE None

UpperHex == <<"0", "1", "2", "3", "4", "5", "6", "7", "8", "9", "A", "B", "C", "D", "E", "F">>

LowerHex == <<"0", "1", "2", "3", "4", "5", "6", "7", "8", "9", "a", "b", "c", "d", "e", "f">>

\* char::to_digit(16): the value of each hexadecimal digit, either case
HexDigitValues ==
    [c \in {UpperHex[i] : i \in 1..16} \cup {LowerHex[i] : i \in 1..16} |->
        (CHOOSE i \in 1..16 : UpperHex[i] = c \/ LowerHex[i] = c) - 1]

IsHexDigit(c) == c \in DOMAIN HexDigitValues

HexValue(c) == HexDigitValues[c]

U8Max == 255

RECURSIVE DigitsValue(_, _)
\* the accumulation loop of from_str_radix: acc * 16 + digit, left to right
DigitsValue(digits, acc) ==
    IF digits = <<>> THEN acc
    ELSE DigitsValue(Tail(digits), acc * 16 + HexValue(Head(digits)))

\* u8::from_str_radix(src, 16): an optional '+', then one or more hex digits
U8FromStrRadix16(src) ==
    IF src = <<>> THEN Err("ParseIntError: Empty")
    ELSE IF Len(src) = 1 /\ src[1] \in {"+", "-"} THEN Err("ParseIntError: InvalidDigit")
    ELSE LET digits == IF src[1] = "+" THEN Tail(src) ELSE src
             value == DigitsValue(digits, 0)
         IN  IF \E k \in 1..Len(digits) : ~IsHexDigit(digits[k])
                 THEN Err("ParseIntError: InvalidDigit")
             ELSE IF value > U8Max THEN Err("ParseIntError: PosOverflow")
             ELSE Ok(value)

\* format!("{:02X}", byte)
FormatHex02X(byte) == <<UpperHex[(byte \div 16) + 1], UpperHex[(byte % 16) + 1]>>

----------------------------------------------------------------------------
(* The colour model: color_from_rgba, color_to_rgba, add_colors *)

\* one channel: color.get(i..j).ok_or("invalid rgba color")? parsed as hex
ParseChannel(digits) ==
    IF IsSome(digits) THEN U8FromStrRadix16(Unwrap(digits)) ELSE Err("invalid rgba color")

\* Option::unwrap_or
UnwrapOr(o, default) == IF IsSome(o) THEN Unwrap(o) ELSE default

\* the tuple of the four channels, or the first error met from left to right
Channels(r, g, b, a) ==
    IF ~r.ok THEN r
    ELSE IF ~g.ok THEN g
    ELSE IF ~b.ok THEN b
    ELSE IF ~a.ok THEN a
    ELSE Ok(<<r.val, g.val, b.val, a.val>>)

\* color_from_rgba: bytes 1..3, 3..5, 5..7 and, when present, 7..9 ("FF"
\* otherwise); byte 0 is not read
ColorFromRgba(color) ==
    Channels(ParseChannel(StrGet(color, 1, 3)),
             ParseChannel(StrGet(color, 3, 5)),
             ParseChannel(StrGet(color, 5, 7)),
             U8FromStrRadix16(UnwrapOr(StrGet(color, 7, 9), <<"F", "F">>)))

\* color_to_rgba: "#" and the four channels as two uppercase hex digits each
ColorToRgba(color) ==
    <<"#">> \o FormatHex02X(color[1]) \o FormatHex02X(color[2])
            \o FormatHex02X(color[3]) \o FormatHex02X(color[4])

\* a plausible slip: wrapping instead of saturating addition
WrappingAdd(x, y) == (x + y) % (U8Max + 1)

\* u8::saturating_add
SaturatingAdd(x, y) == IF x + y > U8Max THEN U8Max ELSE x + y

\* the (Some(a), Some(b)) arm of add_colors, ca and cb being what
\* color_from_rgba returned for a and for b
AddChannels(ca, cb) ==
    IF ~ca.ok THEN ca
    ELSE IF ~cb.ok THEN cb
    ELSE Ok(Some(ColorToRgba(<<SaturatingAdd(ca.val[1], cb.val[1]),
                               SaturatingAdd(ca.val[2], cb.val[2]),
                               SaturatingAdd(ca.val[3], cb.val[3]),
                               SaturatingAdd(ca.val[4], cb.val[4])>>)))

\* add_colors(a, b)
AddColors(a, b) ==
    IF ~IsSome(a) THEN Ok(None)
    ELSE IF ~IsSome(b) THEN Ok(Some(Unwrap(a)))
    ELSE AddChannels(ColorFromRgba(Unwrap(a)), ColorFromRgba(Unwrap(b)))

----------------------------------------------------------------------------
(* The state of each component while another one is being exercised *)

ColorIdle ==
    /\ color_a = None
    /\ color_b = None
    /\ rgba_result = NotCalled
    /\ add_result = NotCalled

TemplateIdle ==
    /\ template = <<>>
    /\ tokens = NotCalled
    /\ render_vars = <<>>
    /\ render_result = NotCalled

BarIdle ==
    /\ content = <<>>
    /\ bar_min = None
    /\ bar_max = None
    /\ bar_result = NotCalled

PrintIdle ==
    /\ blocks = <<>>
    /\ print_theme = <<>>
    /\ stdout = <<>>
    /\ print_result = NotCalled

NoCall == [op |-> "none", handle |-> 0, overrides |-> <<>>, result |-> NotCalled]

ConfigIdle ==
    /\ handles = <<>>
    /\ theme_rc = <<>>
    /\ icons_rc = <<>>
    /\ last_call = NoCall

\* the width of usize in bits, scaled down so that a run can make more
\* than 2^UsizeBits calls
UsizeBits == 3

\* usize::MAX
UsizeMax == 2^UsizeBits - 1

\* static ID: AtomicUsize = AtomicUsize::new(usize::MAX), and no call made
UuidIdle ==
    /\ ID = UsizeMax
    /\ uuid_log = <<>>

----------------------------------------------------------------------------
(* Inputs of the colour functions *)

\* how many two-character groups follow the first character of an input
MaxChunks == 4

RECURSIVE SeqsUpTo(_, _)
\* the sequences over S of length at most n
SeqsUpTo(S, n) ==
    IF n = 0 THEN {<<>>}
    ELSE LET shorter == SeqsUpTo(S, n - 1)
         IN  shorter \cup {Append(s, x) : s \in {t \in shorter : Len(t) = n - 1}, x \in S}

\* two-character groups: bytes 0x00, 0x80 and 0xFF (mixed case), a signed
\* digit and a non-hexadecimal character
ColorChunks == {<<"0", "0">>, <<"8", "0">>, <<"f", "F">>, <<"+", "8">>, <<"G", "0">>}

\* an optional first character, then groups, then an optional odd digit
ColorInputs ==
    {first \o Concat(chunks) \o last :
        first \in {<<>>, <<"#">>, <<"x">>},
        chunks \in SeqsUpTo(ColorChunks, MaxChunks),
        last \in {<<>>, <<"8">>}}

\* the second argument of add_colors: the theme's tint
TintInputs ==
    {<<"#", "8", "0", "8", "0", "8", "0">>,
     <<"#", "1", "0", "2", "0", "f", "f", "8", "0">>,
     <<"t", "i", "n", "t">>}

ColorInit ==
    /\ color_a \in {None} \cup {Some(s) : s \in ColorInputs}
    /\ color_b \in {None} \cup {Some(s) : s \in TintInputs}
    /\ rgba_result = NotCalled
    /\ add_result = NotCalled
    /\ TemplateIdle
    /\ BarIdle
    /\ PrintIdle
    /\ ConfigIdle
    /\ UuidIdle

\* a call of color_from_rgba(color_a)
CallColorFromRgba ==
    /\ IsSome(color_a)
    /\ rgba_result = NotCalled
    /\ rgba_result' = ColorFromRgba(Unwrap(color_a))
    /\ UNCHANGED <<color_a, color_b, add_result, templateVars, barVars, printVars, configVars, uuidVars>>

\* a call of add_colors(color_a, color_b)
CallAddColors ==
    /\ add_result = NotCalled
    /\ add_result' = AddColors(color_a, color_b)
    /\ UNCHANGED <<color_a, color_b, rgba_result, templateVars, barVars, printVars, configVars, uuidVars>>

ColorNext == CallColorFromRgba \/ CallAddColors

SpecColor == ColorInit /\ [][ColorNext]_vars

----------------------------------------------------------------------------
(* Properties of the colour model *)

Called(result) == result.err # "not called"

\* "#" followed by exactly 6 or exactly 8 hexadecimal digits
IsColorLiteral(s) ==
    /\ Len(s) \in {7, 9}
    /\ s[1] = "#"
    /\ \A k \in 2..Len(s) : IsHexDigit(s[k])

\* channel i (1 = R .. 4 = A) of a colour literal, read off its digits
LiteralChannel(s, i) ==
    IF 2 * i + 1 <= Len(s) THEN 16 * HexValue(s[2 * i]) + HexValue(s[2 * i + 1]) ELSE 255

\* C6: color_from_rgba succeeds if and only if its input is "#" followed by
\* exactly 6 or 8 hexadecimal digits, and then returns the channel bytes with
\* A = 255 for 6 digits; every other input is rejected.
C6_ParseIffColorLiteral ==
    Called(rgba_result) =>
        /\ rgba_result.ok <=> IsColorLiteral(Unwrap(color_a))
        /\ rgba_result.ok =>
              rgba_result.val = [i \in 1..4 |-> LiteralChannel(Unwrap(color_a), i)]

\* C7: add_colors returns none for a none first argument, the first argument
\* unchanged for a none second argument, and for two colour literals the
\* uppercase #RRGGBBAA string whose every channel is min(255, a + b).
C7_BlendSaturates ==
    Called(add_result) =>
        /\ color_a = None => add_result = Ok(None)
        /\ (color_a # None /\ color_b = None) => add_result = Ok(color_a)
        /\ (/\ color_a # None
            /\ color_b # None
            /\ IsColorLiteral(Unwrap(color_a))
            /\ IsColorLiteral(Unwrap(color_b))) =>
              /\ add_result.ok
              /\ IsSome(add_result.val)
              /\ LET a == Unwrap(color_a)
                     b == Unwrap(color_b)
                     s == Unwrap(add_result.val)
                 IN  /\ Len(s) = 9
                     /\ s[1] = "#"
                     /\ \A k \in 2..9 : \E d \in 1..16 : s[k] = UpperHex[d]
                     /\ \A i \in 1..4 :
                           LET sum == LiteralChannel(a, i) + LiteralChannel(b, i)
                           IN  LiteralChannel(s, i) = IF sum > 255 THEN 255 ELSE sum

\* a blend of two literals in which one channel saturates, another does not,
\* and the alpha of the first argument is the default
C7_Witness ==
    /\ Called(add_result)
    /\ color_a # None
    /\ color_b # None
    /\ IsColorLiteral(Unwrap(color_a))
    /\ IsColorLiteral(Unwrap(color_b))
    /\ Len(Unwrap(color_a)) = 7
    /\ \E i \in 1..3 : LiteralChannel(Unwrap(color_a), i) + LiteralChannel(Unwrap(color_b), i) > 255
    /\ \E i \in 1..3 : LiteralChannel(Unwrap(color_a), i) + LiteralChannel(Unwrap(color_b), i) < 255
    /\ add_result.ok

----------------------------------------------------------------------------
(* FormatTemplate: from_string and render_static_str *)

\* the character class [a-zA-Z0-9_-] of the placeholder pattern
NameChars ==
    {"a", "b", "c", "d", "e", "f", "g", "h", "i", "j", "k", "l", "m",
     "n", "o", "p", "q", "r", "s", "t", "u", "v", "w", "x", "y", "z",
     "A", "B", "C", "D", "E", "F", "G", "H", "I", "J", "K", "L", "M",
     "N", "O", "P", "Q", "R", "S", "T", "U", "V", "W", "X", "Y", "Z",
     "0", "1", "2", "3", "4", "5", "6", "7", "8", "9", "_", "-"}

\* the pattern \{[a-zA-Z0-9_-]+?\} anchored at position i (1-based): the
\* position of the closing brace of the match, or 0 when there is no match
MatchEnd(s, i) ==
    LET ends == {j \in (i + 2)..Len(s) :
                    /\ s[j] = "}"
                    /\ \A k \in (i + 1)..(j - 1) : s[k] \in NameChars}
    IN  IF i >= 1 /\ i <= Len(s) /\ s[i] = "{" /\ ends # {}
            THEN CHOOSE j \in ends : \A e \in ends : j <= e
        ELSE 0

\* Regex::find_iter: the start of the leftmost match at or after position
\* from (1-based), or 0 when there is none
FindNext(s, from) ==
    LET starts == {i \in from..Len(s) : MatchEnd(s, i) # 0}
    IN  IF starts = {} THEN 0 ELSE CHOOSE i \in starts : \A e \in starts : i <= e

Text(str) == [kind |-> "Text", s |-> str]

Var(str) == [kind |-> "Var", s |-> str]

RECURSIVE TokenizeLoop(_, _, _)
\* the loop of from_string; start is the 0-based offset of the text not yet
\* consumed and toks the tokens pushed so far. Nothing is pushed after the
\* last match.
TokenizeLoop(s, start, toks) ==
    LET m == FindNext(s, start + 1)
    IN  IF m = 0 THEN toks
        ELSE LET m_start == m - 1
                 m_end == MatchEnd(s, m)
                 with_text == IF m_start # start
                                  THEN Append(toks, Text(SubSeq(s, start + 1, m_start)))
                              ELSE toks
             IN  TokenizeLoop(s, m_end, Append(with_text, Var(SubSeq(s, m, m_end))))

\* FormatTemplate::from_string (the constant pattern always compiles)
FromString(s) == Ok(TokenizeLoop(s, 0, <<>>))

UnknownPlaceholder == "Unknown placeholder in format string: "

RECURSIVE RenderLenient(_, _, _)
\* a plausible slip: a placeholder that is not in vars renders as nothing
RenderLenient(toks, vs, rendered) ==
    IF toks = <<>> THEN Ok(rendered)
    ELSE LET token == Head(toks)
         IN  IF token.kind = "Text" THEN RenderLenient(Tail(toks), vs, rendered \o token.s)
             ELSE IF token.s \notin DOMAIN vs THEN RenderLenient(Tail(toks), vs, rendered)
             ELSE RenderLenient(Tail(toks), vs, rendered \o vs[token.s])

RECURSIVE RenderLoop(_, _, _)
\* the loop of render_static_str over the tokens that are left
RenderLoop(toks, vs, rendered) ==
    IF toks = <<>> THEN Ok(rendered)
    ELSE LET token == Head(toks)
         IN  IF token.kind = "Text" THEN RenderLoop(Tail(toks), vs, rendered \o token.s)
             ELSE IF token.s \notin DOMAIN vs
                 THEN ErrMsg("InternalError", <<UnknownPlaceholder>> \o token.s)
             ELSE RenderLoop(Tail(toks), vs, rendered \o vs[token.s])

\* FormatTemplate::render_static_str
RenderStaticStr(toks, vs) == RenderLoop(toks, vs, <<>>)

\* how many pieces a template is put together from
MaxPieces == 4

\* pieces of a template: two placeholders, stray braces, a name character
\* and a character outside the class
TemplatePieces ==
    {<<"{", "a", "}">>, <<"{", "b", "}">>, <<"{">>, <<"}">>, <<"a">>, <<" ">>}

Templates == {Concat(pieces) : pieces \in SeqsUpTo(TemplatePieces, MaxPieces)}

\* keys of vars, as the callers of render_static_str write them (with the
\* braces), and one without braces
VarKeys == {<<"{", "a", "}">>, <<"{", "b", "}">>, <<"a">>}

\* the value (already in its Display form) held under a key
VarValue(key) ==
    IF key = <<"{", "a", "}">> THEN <<"x">>
    ELSE IF key = <<"{", "b", "}">> THEN <<"y", "z">>
    ELSE <<"w">>

VarMaps == {[key \in keys |-> VarValue(key)] : keys \in SUBSET VarKeys}

TemplateInit ==
    /\ template \in Templates
    /\ tokens = NotCalled
    /\ render_vars = <<>>
    /\ render_result = NotCalled
    /\ ColorIdle
    /\ BarIdle
    /\ PrintIdle
    /\ ConfigIdle
    /\ UuidIdle

\* FormatTemplate::from_string(template)
CallFromString ==
    /\ tokens = NotCalled
    /\ tokens' = FromString(template)
    /\ UNCHANGED <<template, render_vars, render_result, colorVars, barVars, printVars, configVars, uuidVars>>

\* template.render_static_str(&vs), any number of times on one template
CallRenderStaticStr ==
    /\ tokens.ok
    /\ \E vs \in VarMaps :
          /\ render_vars' = vs
          /\ render_result' = RenderStaticStr(tokens.val, vs)
    /\ UNCHANGED <<template, tokens, colorVars, barVars, printVars, configVars, uuidVars>>

TemplateNext == CallFromString \/ CallRenderStaticStr

SpecTemplate == TemplateInit /\ [][TemplateNext]_vars

----------------------------------------------------------------------------
(* Properties of FormatTemplate *)

\* the positions (1-based) at which a placeholder of the template starts
PlaceholderStarts(s) == {i \in 1..Len(s) : MatchEnd(s, i) # 0}

\* the placeholder that starts at position i, braces included
PlaceholderAt(s, i) == SubSeq(s, i, MatchEnd(s, i))

RECURSIVE Substituted(_, _, _)
\* the template from position i on, each placeholder replaced by its value
\* and every other character kept
Substituted(s, vs, i) ==
    IF i > Len(s) THEN <<>>
    ELSE IF MatchEnd(s, i) # 0
        THEN vs[PlaceholderAt(s, i)] \o Substituted(s, vs, MatchEnd(s, i) + 1)
    ELSE <<s[i]>> \o Substituted(s, vs, i + 1)

AllPlaceholdersIn(s, vs) == \A i \in PlaceholderStarts(s) : PlaceholderAt(s, i) \in DOMAIN vs

\* C4: when vars has an entry for every placeholder of the template, compile
\* followed by render returns the template with each placeholder replaced by
\* its value and every other character (before, between and after the
\* placeholders) preserved in order.
C4_RenderSubstitutes ==
    (Called(render_result) /\ AllPlaceholdersIn(template, render_vars)) =>
        /\ render_result.ok
        /\ render_result.val = Substituted(template, render_vars, 1)

\* C5: render fails if and only if some placeholder of the template has no
\* entry in vars; the error names the first such placeholder in template
\* order and no rendered string is returned.
C5_RenderFailsIffMissing ==
    Called(render_result) =>
        LET missing == {i \in PlaceholderStarts(template) :
                           PlaceholderAt(template, i) \notin DOMAIN render_vars}
        IN  /\ ~render_result.ok <=> missing # {}
            /\ ~render_result.ok =>
                  LET first == CHOOSE i \in missing : \A j \in missing : i <= j
                  IN  /\ render_result.err = "InternalError"
                      /\ render_result.msg = <<UnknownPlaceholder>> \o PlaceholderAt(template, first)
                      /\ render_result.val = <<>>

\* a failed render of a template whose first placeholder has an entry and
\* whose second one has none
C5_Witness ==
    /\ Called(render_result)
    /\ ~render_result.ok
    /\ \E i, j \in PlaceholderStarts(template) :
          /\ i < j
          /\ PlaceholderAt(template, i) \in DOMAIN render_vars
          /\ PlaceholderAt(template, j) \notin DOMAIN render_vars
          /\ render_result.msg = <<UnknownPlaceholder>> \o PlaceholderAt(template, j)

----------------------------------------------------------------------------
(* format_vec_to_bar_graph *)

\* f64 values: the small integers (exactly representable, and normal unless
\* zero), NaN and the two infinities
Num(n) == [k |-> "num", v |-> n]

NaN == [k |-> "nan", v |-> 0]

Infinity == [k |-> "inf", v |-> 0]

NegInfinity == [k |-> "-inf", v |-> 0]

\* a < b on f64: false whenever an operand is NaN
FLt(a, b) ==
    /\ a.k # "nan"
    /\ b.k # "nan"
    /\ \/ a.k = "-inf" /\ b.k # "-inf"
       \/ a.k = "num" /\ b.k = "inf"
       \/ a.k = "num" /\ b.k = "num" /\ a.v < b.v

\* a <= b on f64
FLe(a, b) == a.k # "nan" /\ b.k # "nan" /\ ~FLt(b, a)

\* a - b on f64
FSub(a, b) ==
    IF a.k = "nan" \/ b.k = "nan" THEN NaN
    ELSE IF a.k = "inf" THEN (IF b.k = "inf" THEN NaN ELSE Infinity)
    ELSE IF a.k = "-inf" THEN (IF b.k = "-inf" THEN NaN ELSE NegInfinity)
    ELSE IF b.k = "inf" THEN NegInfinity
    ELSE IF b.k = "-inf" THEN Infinity
    ELSE Num(a.v - b.v)

\* f64::is_normal: neither zero, infinite, subnormal nor NaN
IsNormal(x) == x.k = "num" /\ x.v # 0

\* the body of f64::clamp once its assertion min <= max has passed
FClamp(x, lo, hi) == IF FLt(x, lo) THEN lo ELSE IF FLt(hi, x) THEN hi ELSE x

\* the eight block elements U+2581 .. U+2588
BARS == <<"U+2581", "U+2582", "U+2583", "U+2584", "U+2585", "U+2586", "U+2587", "U+2588">>

RECURSIVE MinMaxLoop(_, _, _)
\* the loop that finds min_v and max_v; returns <<min_v, max_v>>
MinMaxLoop(cont, min_v, max_v) ==
    IF cont = <<>> THEN <<min_v, max_v>>
    ELSE LET v == Head(cont)
         IN  MinMaxLoop(Tail(cont),
                        IF FLt(v, min_v) THEN v ELSE min_v,
                        IF FLt(max_v, v) THEN v ELSE max_v)

\* min.unwrap_or(min_v)
EffectiveMin(cont, min) ==
    IF IsSome(min) THEN Unwrap(min) ELSE MinMaxLoop(cont, Infinity, NegInfinity)[1]

\* max.unwrap_or(max_v)
EffectiveMax(cont, max) ==
    IF IsSome(max) THEN Unwrap(max) ELSE MinMaxLoop(cont, Infinity, NegInfinity)[2]

\* extant = max - min
Extant(cont, min, max) == FSub(EffectiveMax(cont, max), EffectiveMin(cont, min))

\* ((x.clamp(min, max) - min) / extant * length) as usize, for a normal
\* extant and min <= max; the cast of NaN is 0
BarIndex(x, lo, hi, extant) ==
    LET d == FSub(FClamp(x, lo, hi), lo)
    IN  IF d.k = "nan" THEN 0 ELSE (d.v * (Len(BARS) - 1)) \div extant.v

\* the results format_vec_to_bar_graph can end with. In the degenerate
\* branch the range is 0..content.len() - 1 on usize: for an empty content
\* the subtraction overflows, which panics in a build with overflow checks
\* and wraps to usize::MAX otherwise, where collecting that many glyphs
\* exhausts memory and aborts.
FormatVecToBarGraph(cont, min, max) ==
    LET lo == EffectiveMin(cont, min)
        hi == EffectiveMax(cont, max)
        extant == Extant(cont, min, max)
    IN  IF IsNormal(extant)
            THEN IF cont # <<>> /\ ~FLe(lo, hi)
                     THEN {Panic("assertion failed: min <= max")}
                 ELSE {Ok([i \in 1..Len(cont) |-> BARS[BarIndex(cont[i], lo, hi, extant) + 1]])}
        ELSE IF Len(cont) = 0
            THEN {Panic("attempt to subtract with overflow"),
                  ErrMsg("abort", <<"memory allocation failed">>)}
        ELSE {Ok([i \in 1..(Len(cont) - 1) |-> BARS[1]])}

\* how many samples a content holds
MaxSamples == 3

SampleValues == {Num(0), Num(1), Num(2), NaN}

BoundChoices == {None, Some(Num(0)), Some(Num(2))}

BarInit ==
    /\ content \in SeqsUpTo(SampleValues, MaxSamples)
    /\ bar_min \in BoundChoices
    /\ bar_max \in BoundChoices
    /\ bar_result = NotCalled
    /\ ColorIdle
    /\ TemplateIdle
    /\ PrintIdle
    /\ ConfigIdle
    /\ UuidIdle

\* a call of format_vec_to_bar_graph(content, bar_min, bar_max)
CallFormatVecToBarGraph ==
    /\ bar_result = NotCalled
    /\ bar_result' \in FormatVecToBarGraph(content, bar_min, bar_max)
    /\ UNCHANGED <<content, bar_min, bar_max, colorVars, templateVars, printVars, configVars, uuidVars>>

BarNext == CallFormatVecToBarGraph

SpecBar == BarInit /\ [][BarNext]_vars

----------------------------------------------------------------------------
(* Properties of format_vec_to_bar_graph *)

\* C8: when the effective range max - min is degenerate (all samples equal,
\* a NaN range or an empty sequence) the call returns normally with the
\* emptiest glyph for every position of the sequence.
C8_DegenerateAllEmptiest ==
    (Called(bar_result) /\ ~IsNormal(Extant(content, bar_min, bar_max))) =>
        /\ bar_result.ok
        /\ Len(bar_result.val) = Len(content)
        /\ \A i \in 1..Len(bar_result.val) : bar_result.val[i] = BARS[1]

----------------------------------------------------------------------------
(* Theme and I3BlockData: the records print_blocks works on *)

Auto == <<"a", "u", "t", "o">>

\* Theme: ten overridable colours, the separator glyph and its colours, the
\* alternating tint and the native-separator flag
BaseTheme ==
    [idle_fg |-> None, idle_bg |-> None, info_fg |-> None, info_bg |-> None,
     good_fg |-> None, good_bg |-> None, warning_fg |-> None, warning_bg |-> None,
     critical_fg |-> None, critical_bg |-> None,
     separator |-> "|", separator_fg |-> Some(Auto), separator_bg |-> Some(Auto),
     alternating_tint_bg |-> None, native_separators |-> None]

\* I3BlockData::default()
I3BlockDataDefault ==
    [full_text |-> "", color |-> None, background |-> None,
     separator |-> Some(FALSE), separator_block_width |-> Some(0)]

\* One element of an output string: a character, or the wire-format object
\* of one I3BlockData. Serialization keeps every field, so two data records
\* serialize alike only when they are equal.
Chr(c) == [chr |-> c, obj |-> None]

\* I3BlockData::render
Render(data) == <<[chr |-> "", obj |-> Some(data)]>>

RECURSIVE Join(_, _)
\* [String]::join(sep)
Join(strs, sep) ==
    IF strs = <<>> THEN <<>>
    ELSE IF Len(strs) = 1 THEN strs[1]
    ELSE strs[1] \o <<Chr(sep)>> \o Join(Tail(strs), sep)

----------------------------------------------------------------------------
(* print_blocks *)

\* the number of blocks with a non-empty view
VisibleCount(bs) == Cardinality({i \in 1..Len(bs) : bs[i] # <<>>})

\* a plausible slip: the tint starts on the first block whatever the count
AlternatorStartsSet(bs) == TRUE

\* let mut alternator = visible_count % 2 == 0
InitialAlternator(bs) == VisibleCount(bs) % 2 = 0

UnwrapPanic == Panic("called Result::unwrap() on an Err value")

\* the data with background bg and color fg, both results of add_colors
\* that the closure unwraps
Tinted(data, bg, fg) ==
    IF ~bg.ok THEN UnwrapPanic
    ELSE IF ~fg.ok THEN UnwrapPanic
    ELSE Ok([data EXCEPT !.background = bg.val, !.color = fg.val])

\* the closure mapped over the widgets of one block: get_data, and with the
\* alternator set the tint added to background and color
TintData(data, alternator, tint) ==
    IF ~alternator THEN Ok(data)
    ELSE Tinted(data, AddColors(data.background, tint), AddColors(data.color, tint))

RECURSIVE RenderedWidgets(_, _, _)

\* the data of one more widget in front of the collected rest
Collected(first, rest) == IF rest.ok THEN Ok(<<first>> \o rest.val) ELSE rest

\* the data of the first widget, then the collecting of the others
CollectFrom(first, others, alternator, tint) ==
    IF ~first.ok THEN first
    ELSE Collected(first.val, RenderedWidgets(others, alternator, tint))

\* widgets.iter().map(..).collect(): the data of every widget, or the panic
\* of the first widget whose tint cannot be computed
RenderedWidgets(widgets, alternator, tint) ==
    IF widgets = <<>> THEN Ok(<<>>)
    ELSE CollectFrom(TintData(Head(widgets), alternator, tint), Tail(widgets), alternator, tint)

\* with native separators the separator fields of the last widget are cleared
ClearLastSeparator(ws) ==
    [ws EXCEPT ![Len(ws)] = [@ EXCEPT !.separator = None, !.separator_block_width = None]]

\* rendered_widgets.iter().map(|w| w.render()).collect().join(",")
BlockStr(ws) == Join([i \in 1..Len(ws) |-> Render(ws[i])], ",")

NoBackground == ErrMsg("InternalError", <<"could not get background color">>)

\* a plausible slip: an "auto" background taken from the block itself
\* instead of the block before it
SeparatorFromFirst(theme, first_bg, last_bg) ==
    [I3BlockDataDefault EXCEPT
        !.full_text = theme.separator,
        !.background = IF theme.separator_bg = Some(Auto) THEN first_bg
                       ELSE theme.separator_bg,
        !.color = IF theme.separator_fg = Some(Auto) THEN first_bg
                  ELSE theme.separator_fg]

\* the separator put in front of a block whose first widget has the
\* background first_bg, last_bg being the one recorded by the block before
Separator(theme, first_bg, last_bg) ==
    [I3BlockDataDefault EXCEPT
        !.full_text = theme.separator,
        !.background = IF theme.separator_bg = Some(Auto) THEN last_bg
                       ELSE theme.separator_bg,
        !.color = IF theme.separator_fg = Some(Auto) THEN first_bg
                  ELSE theme.separator_fg]

\* the locals of print_blocks that live across iterations of its loop
LoopState(alternator, last_bg, rendered_blocks) ==
    [alternator |-> alternator, last_bg |-> last_bg, rendered_blocks |-> rendered_blocks]

\* the rest of one iteration once the widgets of the block were mapped
\* without panic: Ok(the locals after it), or the error that ends the call
PushBlock(ws, st, theme) ==
    IF theme.native_separators = Some(TRUE)
        THEN Ok(LoopState(~st.alternator, st.last_bg,
                          Append(st.rendered_blocks, BlockStr(ClearLastSeparator(ws)))))
    ELSE IF ~IsSome(ws[1].background) THEN NoBackground
    ELSE IF ~IsSome(ws[Len(ws)].background) THEN NoBackground
    ELSE Ok(LoopState(~st.alternator, ws[Len(ws)].background,
                      Append(st.rendered_blocks,
                             Render(Separator(theme, ws[1].background, st.last_bg))
                                 \o <<Chr(",")>> \o BlockStr(ws))))

RECURSIVE PrintLoop(_, _, _)

\* the rest of one iteration, mapped being the collected widget data
AfterMap(mapped, st, theme) ==
    IF ~mapped.ok THEN mapped ELSE PushBlock(mapped.val, st, theme)

\* one iteration of the loop, for the view widgets of the current block
LoopBody(widgets, st, theme) ==
    IF widgets = <<>> THEN Ok(st)
    ELSE AfterMap(RenderedWidgets(widgets, st.alternator, theme.alternating_tint_bg),
                  st, theme)

\* the loop from the next block on, after being what the iteration before
\* it ended with
LoopFrom(after, bs, theme) ==
    IF ~after.ok THEN after ELSE PrintLoop(bs, after.val, theme)

\* the loop over the blocks: Ok(the locals after it), or the error or panic
\* that ends it
PrintLoop(bs, st, theme) ==
    IF bs = <<>> THEN Ok(st)
    ELSE LoopFrom(LoopBody(Head(bs), st, theme), Tail(bs), theme)

\* a plausible slip: the line without its trailing comma
OutputLineNoComma(rendered_blocks) == <<Chr("[")>> \o Join(rendered_blocks, ",") \o <<Chr("]")>>

\* format!("[{}],", rendered_blocks.join(","))
OutputLine(rendered_blocks) ==
    <<Chr("[")>> \o Join(rendered_blocks, ",") \o <<Chr("]"), Chr(",")>>

\* rendered_blocks as the loop left it
RenderedBlocks(looped) == IF looped.ok THEN Ok(looped.val.rendered_blocks) ELSE looped

\* print_blocks(blocks, config) up to its println!: Ok(rendered_blocks), or
\* the error or panic that ends the call before anything is printed
PrintBlocks(bs, theme) ==
    RenderedBlocks(PrintLoop(bs, LoopState(InitialAlternator(bs), None, <<>>), theme))

----------------------------------------------------------------------------
(* Inputs of print_blocks *)

\* how many blocks the bar holds
MaxBlocks == 4

ColorBase03 == <<"#", "0", "0", "2", "B", "3", "6">>

ColorBase1 == <<"#", "9", "3", "A", "1", "A", "1">>

ColorLight == <<"#", "F", "0", "F", "0", "F", "0">>

ColorBlack == <<"#", "0", "0", "0", "0", "0", "0", "F", "F">>

ColorName == <<"r", "e", "d">>

ColorTint == <<"#", "2", "0", "2", "0", "2", "0">>

ColorLiteral == <<"#", "6", "6", "6", "6", "6", "6">>

Widget(text, fg, bg) ==
    [I3BlockDataDefault EXCEPT !.full_text = text, !.color = fg, !.background = bg]

\* what a block's view() can yield: nothing, one widget, two widgets of
\* different backgrounds, a widget without background (alone, and after one
\* that has a background) and a widget whose background is no colour literal
Views ==
    {<<>>,
     <<Widget("time", Some(ColorBase1), Some(ColorBase03))>>,
     <<Widget("cpu", Some(ColorBase1), Some(ColorLight)), Widget("70%", None, Some(ColorBlack))>>,
     <<Widget("plain", Some(ColorBase1), None)>>,
     <<Widget("net", Some(ColorBase1), Some(ColorBase03)), Widget("up", None, None)>>,
     <<Widget("named", None, Some(ColorName))>>}

Themes ==
    {[BaseTheme EXCEPT !.native_separators = native, !.alternating_tint_bg = tint,
                       !.separator_fg = fg, !.separator_bg = bg] :
        native \in {None, Some(TRUE), Some(FALSE)},
        tint \in {None, Some(ColorTint)},
        fg \in {Some(Auto), Some(ColorLiteral)},
        bg \in {Some(Auto), Some(ColorLiteral)}}

PrintInit ==
    /\ blocks \in SeqsUpTo(Views, MaxBlocks)
    /\ print_theme \in Themes
    /\ stdout = <<>>
    /\ print_result = NotCalled
    /\ ColorIdle
    /\ TemplateIdle
    /\ BarIdle
    /\ ConfigIdle
    /\ UuidIdle

\* a call of print_blocks(blocks, config) that returns: one line is printed
\* when the loop ended well, nothing otherwise
CallPrintBlocks ==
    /\ print_result = NotCalled
    /\ \E looped \in {PrintBlocks(blocks, print_theme)} :
          /\ stdout' = IF looped.ok THEN Append(stdout, OutputLine(looped.val)) ELSE stdout
          /\ print_result' = IF looped.ok THEN Ok(<<>>) ELSE looped
    /\ UNCHANGED <<blocks, print_theme, colorVars, templateVars, barVars, configVars, uuidVars>>

PrintNext == CallPrintBlocks

Spec == PrintInit /\ [][PrintNext]_vars

----------------------------------------------------------------------------
(* Properties of print_blocks *)

\* the views of the visible blocks, in input order
VisibleViews == SelectSeq(blocks, LAMBDA view : view # <<>>)

NativeSeparators == print_theme.native_separators = Some(TRUE)

\* how many separator entries precede the widgets of one block
SeparatorEntries == IF NativeSeparators THEN 0 ELSE 1

\* the data of the objects of a line, in order
LineObjects(line) ==
    LET objs == SelectSeq(line, LAMBDA e : e.obj # None)
    IN  [i \in 1..Len(objs) |-> Unwrap(objs[i].obj)]

RECURSIVE EntriesBefore(_)
\* how many entries of the line come before those of the k-th visible block
EntriesBefore(k) ==
    IF k = 1 THEN 0
    ELSE EntriesBefore(k - 1) + SeparatorEntries + Len(VisibleViews[k - 1])

\* the entry emitted for widget i of the k-th visible block
EmittedWidget(k, i) == LineObjects(stdout[1])[EntriesBefore(k) + SeparatorEntries + i]

\* the separator entry emitted in front of the k-th visible block
EmittedSeparator(k) == LineObjects(stdout[1])[EntriesBefore(k) + 1]

Printed == Called(print_result) /\ print_result.ok

\* the k-th of n visible blocks has an odd number of visible blocks after it
OddAfter(k, n) == (n - k) % 2 = 1

\* C1: in the line print_blocks emits, every widget of a visible block
\* carries the tint (background and color blended with the theme's tint) if
\* and only if the number of visible blocks after that block is odd; so the
\* last visible block is untinted, the tint alternates between consecutive
\* visible blocks, and empty blocks neither receive nor shift it.
C1_TintParity ==
    Printed =>
        LET n == Len(VisibleViews)
            tint == print_theme.alternating_tint_bg
        IN  \A k \in 1..n : \A i \in 1..Len(VisibleViews[k]) :
                LET w == VisibleViews[k][i]
                    out == EmittedWidget(k, i)
                IN  IF OddAfter(k, n)
                        THEN /\ out.background = AddColors(w.background, tint).val
                             /\ out.color = AddColors(w.color, tint).val
                    ELSE /\ out.background = w.background
                         /\ out.color = w.color

\* a printed bar of three visible blocks with an empty block among them, in
\* which the tint changes the colours of the middle block and of no other
C1_Witness ==
    /\ Printed
    /\ Len(VisibleViews) = 3
    /\ Len(blocks) = 4
    /\ blocks[1] # <<>>
    /\ blocks[4] # <<>>
    /\ EmittedWidget(2, 1).background # VisibleViews[2][1].background
    /\ EmittedWidget(1, 1).background = VisibleViews[1][1].background
    /\ EmittedWidget(3, 1).background = VisibleViews[3][1].background

RECURSIVE ExpectedTexts(_)
\* the full_text of the entries the first k visible blocks contribute: per
\* block the separator glyph unless separators are native, then the widgets
ExpectedTexts(k) ==
    IF k = 0 THEN <<>>
    ELSE ExpectedTexts(k - 1)
         \o (IF NativeSeparators THEN <<>> ELSE <<print_theme.separator>>)
         \o [i \in 1..Len(VisibleViews[k]) |-> VisibleViews[k][i].full_text]

\* C2: the emitted line is "[", the entries joined by ",", then "],"; the
\* entries are, per visible block in input order, one separator entry
\* unless separators are native and then the block's widgets in order;
\* empty blocks contribute nothing and no visible block gives "[],".
C2_LineLayout ==
    Printed =>
        /\ Len(stdout) = 1
        /\ LET line == stdout[1]
               objs == LineObjects(line)
               m == Len(objs)
           IN  /\ [i \in 1..m |-> objs[i].full_text] = ExpectedTexts(Len(VisibleViews))
               /\ Len(line) = (IF m = 0 THEN 0 ELSE 2 * m - 1) + 3
               /\ line[1] = Chr("[")
               /\ line[Len(line) - 1] = Chr("]")
               /\ line[Len(line)] = Chr(",")
               /\ \A j \in 1..m : line[2 * j].obj # None
               /\ \A j \in 1..(m - 1) : line[2 * j + 1] = Chr(",")
               /\ \A k \in 1..Len(VisibleViews) :
                     ~NativeSeparators => EmittedSeparator(k).full_text = print_theme.separator
        /\ VisibleViews = <<>> => stdout[1] = <<Chr("["), Chr("]"), Chr(",")>>

\* a printed line with synthesized separators for two visible blocks around
\* an empty one, one of them with two widgets
C2_Witness ==
    /\ Printed
    /\ ~NativeSeparators
    /\ Len(blocks) = 3
    /\ blocks[2] = <<>>
    /\ Len(blocks[1]) = 2
    /\ Len(blocks[3]) = 1
    /\ Len(LineObjects(stdout[1])) = 5

\* some widget of a visible block has no background
BackgroundMissing ==
    \E k \in 1..Len(VisibleViews) : \E i \in 1..Len(VisibleViews[k]) :
        VisibleViews[k][i].background = None

\* C3: a call of print_blocks either emits one complete line and returns
\* success, or emits nothing and returns an InternalError; it ends in no
\* other way, and the error occurs only when a widget lacks the background
\* the separator computation needs (never with native separators).
C3_LineOrInternalError ==
    Called(print_result) =>
        \/ /\ print_result.ok
           /\ Len(stdout) = 1
        \/ /\ print_result.err = "InternalError"
           /\ stdout = <<>>
           /\ ~NativeSeparators
           /\ BackgroundMissing

\* the background emitted for the last widget of the k-th visible block
EmittedLastBackground(k) == EmittedWidget(k, Len(VisibleViews[k])).background

\* C12: without native separators, in the printed line the separator in
\* front of the k-th visible block has, when separator_fg is "auto", the
\* emitted (tinted) background of that block's first widget as color, and,
\* when separator_bg is "auto", the emitted background of the last widget
\* of the visible block before it as background (none for the first visible
\* block, empty blocks in between changing nothing); a separator colour
\* that is a literal is carried unchanged.
C12_SeparatorColors ==
    (Printed /\ ~NativeSeparators) =>
        \A k \in 1..Len(VisibleViews) :
            /\ EmittedSeparator(k).color =
                  IF print_theme.separator_fg = Some(Auto)
                      THEN EmittedWidget(k, 1).background
                  ELSE print_theme.separator_fg
            /\ EmittedSeparator(k).background =
                  IF print_theme.separator_bg # Some(Auto) THEN print_theme.separator_bg
                  ELSE IF k = 1 THEN None
                  ELSE EmittedLastBackground(k - 1)

\* both colours "auto": a tinted block of two widgets, an empty block, then
\* a second visible block whose separator takes the tinted background of
\* the last widget of the first, which differs from that of its first
\* widget and from the untinted one
C12_Witness ==
    /\ Printed
    /\ ~NativeSeparators
    /\ print_theme.separator_fg = Some(Auto)
    /\ print_theme.separator_bg = Some(Auto)
    /\ Len(blocks) = 3
    /\ Len(blocks[1]) = 2
    /\ blocks[2] = <<>>
    /\ blocks[3] # <<>>
    /\ EmittedSeparator(1).background = None
    /\ EmittedSeparator(2).background = EmittedLastBackground(1)
    /\ EmittedSeparator(2).background # blocks[1][2].background
    /\ EmittedSeparator(2).background # EmittedWidget(1, 1).background
    /\ EmittedSeparator(2).color = EmittedWidget(2, 1).background
    /\ EmittedSeparator(2).color # EmittedSeparator(2).background

----------------------------------------------------------------------------
(* SharedConfig: new, clone and theme_override *)

CannotBeOverriden(key) ==
    ErrMsg("ConfigurationError", <<"Theme element ", key, " cannot be overriden">>)

\* a plausible slip: a key outside the list is skipped instead of refused
OverrideEntrySkipping(theme, key, value) ==
    IF key \in {"idle_fg", "idle_bg", "info_fg", "info_bg", "good_fg", "good_bg",
                "warning_fg", "warning_bg", "critical_fg", "critical_bg"}
        THEN Ok([theme EXCEPT ![key] = Some(value)])
    ELSE Ok(theme)

\* the match on one entry of overrides, applied to the cloned theme
OverrideEntry(theme, key, value) ==
    CASE key = "idle_fg" -> Ok([theme EXCEPT !.idle_fg = Some(value)])
      [] key = "idle_bg" -> Ok([theme EXCEPT !.idle_bg = Some(value)])
      [] key = "info_fg" -> Ok([theme EXCEPT !.info_fg = Some(value)])
      [] key = "info_bg" -> Ok([theme EXCEPT !.info_bg = Some(value)])
      [] key = "good_fg" -> Ok([theme EXCEPT !.good_fg = Some(value)])
      [] key = "good_bg" -> Ok([theme EXCEPT !.good_bg = Some(value)])
      [] key = "warning_fg" -> Ok([theme EXCEPT !.warning_fg = Some(value)])
      [] key = "warning_bg" -> Ok([theme EXCEPT !.warning_bg = Some(value)])
      [] key = "critical_fg" -> Ok([theme EXCEPT !.critical_fg = Some(value)])
      [] key = "critical_bg" -> Ok([theme EXCEPT !.critical_bg = Some(value)])
      [] OTHER -> CannotBeOverriden(key)

RECURSIVE OverrideLoop(_, _, _)

\* the loop from the next entry on, applied being what the entry before it
\* gave: the first refused entry ends the call
OverrideFrom(applied, order, overrides) ==
    IF ~applied.ok THEN applied ELSE OverrideLoop(applied.val, order, overrides)

\* for entry in overrides, the entries coming in the order the map yields them
OverrideLoop(theme, order, overrides) ==
    IF order = <<>> THEN Ok(theme)
    ELSE OverrideFrom(OverrideEntry(theme, Head(order), overrides[Head(order)]),
                      Tail(order), overrides)

RECURSIVE Orders(_)
\* the orders in which a HashMap can yield the keys S
Orders(S) ==
    IF S = {} THEN {<<>>}
    ELSE UNION {{<<x>> \o rest : rest \in Orders(S \ {x})} : x \in S}

\* a plausible slip: the theme written through the shared pointer
SetThemeInPlace(rc, hs, h, theme) ==
    [theme_rc |-> [rc EXCEPT ![hs[h].theme] = theme], handles |-> hs]

\* self.theme = Rc::new(theme): a new allocation, and this handle alone
\* pointed at it
SetTheme(rc, hs, h, theme) ==
    [theme_rc |-> Append(rc, theme), handles |-> [hs EXCEPT ![h].theme = Len(rc) + 1]]

\* how many SharedConfig values exist at a time
MaxHandles == 2

\* how many Rc<Theme> allocations are made
MaxThemes == 3

\* config.theme: a theme that sets some of the colours
ConfigTheme ==
    [BaseTheme EXCEPT !.idle_bg = Some(ColorBase03), !.idle_fg = Some(ColorBase1),
                      !.good_bg = Some(ColorBase03), !.separator_bg = Some(ColorLiteral),
                      !.alternating_tint_bg = Some(ColorTint)]

\* config.icons and config.icons_format (the text around "{icon}")
ConfigIcons == [time |-> <<"T">>, cpu |-> <<"C">>]

IconsFormat == [before |-> <<" ">>, after |-> <<" ">>]

\* the override maps handed to theme_override: the empty one, four that
\* between them name each of the ten overridable colours (idle_bg twice,
\* with different values), and three with keys that are not overridable
OverrideMaps ==
    {<<>>,
     [k \in {"idle_fg", "idle_bg", "info_fg"} |-> ColorLiteral],
     [k \in {"info_bg", "good_fg", "good_bg"} |-> ColorLight],
     [k \in {"warning_fg", "warning_bg"} |-> ColorBlack],
     [k \in {"critical_fg", "critical_bg", "idle_bg"} |-> ColorName],
     [k \in {"separator_fg"} |-> ColorLiteral],
     [k \in {"info_bg", "alternating_tint_bg"} |-> ColorLight],
     [k \in {"warning_fg", "native_separators", "idle"} |-> ColorLiteral]}

\* SharedConfig::new(config): one handle, its theme and its icons (with
\* icons_format applied) each in an allocation of their own
ConfigInit ==
    /\ handles = <<[theme |-> 1, icons |-> 1, scrolling |-> "Reverse"]>>
    /\ theme_rc = <<ConfigTheme>>
    /\ icons_rc = <<[name \in DOMAIN ConfigIcons |->
                        IconsFormat.before \o ConfigIcons[name] \o IconsFormat.after]>>
    /\ last_call = NoCall
    /\ ColorIdle
    /\ TemplateIdle
    /\ BarIdle
    /\ PrintIdle
    /\ UuidIdle

\* handles[h].clone(): the pointers are copied, not what they point to
Clone ==
    /\ Len(handles) < MaxHandles
    /\ \E h \in 1..Len(handles) :
          /\ handles' = Append(handles, [theme |-> handles[h].theme,
                                         icons |-> handles[h].icons,
                                         scrolling |-> handles[h].scrolling])
          /\ last_call' = [op |-> "clone", handle |-> h, overrides |-> <<>>,
                           result |-> Ok(<<>>)]
    /\ UNCHANGED <<theme_rc, icons_rc, colorVars, templateVars, barVars, printVars, uuidVars>>

\* handles[h].theme_override(&overrides)
ThemeOverride ==
    \E h \in 1..Len(handles), overrides \in OverrideMaps :
        \E order \in Orders(DOMAIN overrides) :
            \E overridden \in {OverrideLoop(theme_rc[handles[h].theme], order, overrides)} :
                /\ overridden.ok => Len(theme_rc) < MaxThemes
                /\ \E set \in {SetTheme(theme_rc, handles, h, overridden.val)} :
                      /\ theme_rc' = IF overridden.ok THEN set.theme_rc ELSE theme_rc
                      /\ handles' = IF overridden.ok THEN set.handles ELSE handles
                /\ last_call' = [op |-> "theme_override", handle |-> h,
                                 overrides |-> overrides,
                                 result |-> IF overridden.ok THEN Ok(<<>>) ELSE overridden]
                /\ UNCHANGED <<icons_rc, colorVars, templateVars, barVars, printVars, uuidVars>>

ConfigNext == Clone \/ ThemeOverride

SpecConfig == ConfigInit /\ [][ConfigNext]_vars

----------------------------------------------------------------------------
(* Properties of SharedConfig *)

\* the ten names the claim lists
AllowList ==
    {"idle_fg", "idle_bg", "info_fg", "info_bg", "good_fg", "good_bg",
     "warning_fg", "warning_bg", "critical_fg", "critical_bg"}

\* what reading config.theme, the icons and the scrolling through handle h gives
ThemeThrough(h) == theme_rc[handles[h].theme]

IconsThrough(h) == icons_rc[handles[h].icons]

ScrollingThrough(h) == handles[h].scrolling

\* C9: theme_override accepts a mapping if and only if every key is one of
\* the ten overridable names; a mapping with any other key is refused with
\* a configuration error and leaves every handle and every theme as it was.
C9_AllowListOnly ==
    [][last_call'.op = "theme_override" =>
          /\ last_call'.result.ok <=> DOMAIN last_call'.overrides \subseteq AllowList
          /\ ~last_call'.result.ok =>
                /\ last_call'.result.err = "ConfigurationError"
                /\ handles' = handles
                /\ theme_rc' = theme_rc
                /\ \A h \in 1..Len(handles) : ThemeThrough(h)' = ThemeThrough(h)]_vars

\* a refused mapping that also held a key of the list, while a clone exists
C9_Witness ==
    /\ last_call.op = "theme_override"
    /\ ~last_call.result.ok
    /\ DOMAIN last_call.overrides \cap AllowList # {}
    /\ Len(handles) = 2

\* the theme t with the entries of the mapping o written over it
Overridden(t, o) == [f \in DOMAIN t |-> IF f \in DOMAIN o THEN Some(o[f]) ELSE t[f]]

\* this step is a successful theme_override on handle h
OverridesThrough(h) ==
    /\ last_call'.op = "theme_override"
    /\ last_call'.handle = h
    /\ last_call'.result.ok

\* C10: a successful override changes exactly the overridden fields of the
\* theme of the handle it is called on; the theme read through any other
\* handle, and the icons and scrolling of every handle, change in no step;
\* a clone reads what the handle it was cloned from reads.
C10_OverrideIsLocal ==
    [][/\ Len(handles') >= Len(handles)
       /\ \A h \in 1..Len(handles) :
             /\ IconsThrough(h)' = IconsThrough(h)
             /\ ScrollingThrough(h)' = ScrollingThrough(h)
             /\ ThemeThrough(h)' = IF OverridesThrough(h)
                                       THEN Overridden(ThemeThrough(h), last_call'.overrides)
                                   ELSE ThemeThrough(h)
       /\ last_call'.op = "clone" =>
             /\ Len(handles') = Len(handles) + 1
             /\ \A from \in 1..Len(handles), new \in {Len(handles) + 1} :
                   last_call'.handle = from =>
                       /\ ThemeThrough(new)' = ThemeThrough(from)
                       /\ IconsThrough(new)' = IconsThrough(from)
                       /\ ScrollingThrough(new)' = ScrollingThrough(from)]_vars

\* after a clone, a successful override through one of the two handles: they
\* now point at different allocations and read different themes
C10_Witness ==
    /\ last_call.op = "theme_override"
    /\ last_call.result.ok
    /\ DOMAIN last_call.overrides # {}
    /\ Len(handles) = 2
    /\ handles[1].theme # handles[2].theme
    /\ ThemeThrough(1) # ThemeThrough(2)
    /\ ThemeThrough(last_call.handle) = Overridden(ConfigTheme, last_call.overrides)
    /\ ThemeThrough(3 - last_call.handle) = ConfigTheme

----------------------------------------------------------------------------
(* pseudo_uuid, called by concurrently running tasks *)

\* AtomicUsize::fetch_sub: subtracts, wrapping around on overflow
FetchSub(current, val) == (current - val) % 2^UsizeBits

\* how many tasks call pseudo_uuid
MaxTasks == 2

Tasks == 1..MaxTasks

\* how many calls a run makes: two more than there are usize values
MaxCalls == 2^UsizeBits + 2

UuidInit ==
    /\ UuidIdle
    /\ ColorIdle
    /\ TemplateIdle
    /\ BarIdle
    /\ PrintIdle
    /\ ConfigIdle

\* task t calls pseudo_uuid(): ID.fetch_sub(1, Ordering::SeqCst) is one
\* atomic read-modify-write and returns the value it read
PseudoUuid(t) ==
    /\ Len(uuid_log) < MaxCalls
    /\ ID' = FetchSub(ID, 1)
    /\ uuid_log' = Append(uuid_log, [task |-> t, id |-> ID])
    /\ UNCHANGED <<colorVars, templateVars, barVars, printVars, configVars>>

UuidNext == \E t \in Tasks : PseudoUuid(t)

SpecUuid == UuidInit /\ [][UuidNext]_vars

\* C11: under every interleaving of the tasks' calls, the first identifier
\* returned is usize::MAX, every later call returns a smaller identifier
\* than every call before it (so no two calls return the same one), and the
\* counter stays below every identifier handed out: it is never reset or
\* increased.
C11_UniqueDecreasing ==
    /\ uuid_log # <<>> => uuid_log[1].id = UsizeMax
    /\ \A i \in 1..Len(uuid_log), j \in 1..Len(uuid_log) :
          i < j => uuid_log[j].id < uuid_log[i].id
    /\ \A i \in 1..Len(uuid_log) : ID < uuid_log[i].id

====
